---- MODULE Spec2Model ----
(***************************************************************************)
(* Model of the village-assistant bot (src/main.py): the process           *)
(* supervisor (RestartHandler and main) and the delivery router (the       *)
(* aiogram handlers).  One asyncio event loop runs everything, so a step   *)
(* of the model is the code between two awaits of one coroutine.           *)
(***************************************************************************)
EXTENDS Integers, Sequences, FiniteSets, TLC

(* ------------------------------ bounds --------------------------------- *)
\* main() invocations (the first call and the recursive ones) explored
MaxRuns == 7
\* termination signals delivered during one process execution
MaxSignals == 2
\* largest restart_count found in bot_state.json when the process starts
MaxInitCount == 5

(* ------------------------- program constants --------------------------- *)
\* "if restart_count < 5" in main
RestartLimit == 5

SaveOutcomes == {"ok", "open_fails", "write_fails"}

(* ------------------------------ state ---------------------------------- *)
VARIABLES
    adminId,      \* os.getenv("ADMIN_ID") is set
    file,         \* contents of bot_state.json, and (by) which save call wrote them
    runs,         \* one record per main() invocation, in call order
    top,          \* index in runs of the invocation that is executing; 0: asyncio.run returned
    sigHandler,   \* index in runs of the RestartHandler the loop's signal handlers call; 0: none
    tasks,        \* graceful_shutdown tasks created by the signal handlers
    limitHits,    \* times main took the "limit reached" branch
    limitNotices, \* "restart limit reached" notices sent to the operator
    lastNotice,   \* the operator notice that failed in the step just taken ("none": none did)
    boot,         \* how far the module-level code of main.py has come
    token,        \* os.getenv("BOT_TOKEN"): missing, empty or a token
    dataFile,     \* data.json
    data,         \* the global data
    hookNotices,  \* messages sent by handle_unhandled_exception
    inter,        \* the update a handler is working on
    hpc,          \* position of that handler
    calls,        \* messaging calls the handler has made, in order
    raised        \* the call whose exception left the handler ("none": no exception)

supVars == <<adminId, file, runs, top, sigHandler, tasks, limitHits, limitNotices,
            lastNotice>>
routerVars == <<inter, hpc, calls, raised>>
bootVars == <<boot, token, dataFile, data, hookNotices>>
vars == <<adminId, file, runs, top, sigHandler, tasks, limitHits, limitNotices,
          lastNotice, boot, token, dataFile, data, hookNotices,
          inter, hpc, calls, raised>>

(* ------------------------- RestartHandler ------------------------------ *)
\* no operator notice failed in the step just taken
NoNotice == [failed |-> "none", caught |-> TRUE]

NoFile == [kind |-> "absent", restart_count |-> 0, shutdown_reason |-> "none", by |-> "none"]
BadFile == [kind |-> "corrupt", restart_count |-> 0, shutdown_reason |-> "none", by |-> "none"]

\* load_state().get("restart_count", 0): a missing or unparsable file reads as 0
load_state(f) == IF f.kind = "state" THEN f.restart_count ELSE 0

\* the "shutdown_reason" expression of save_bot_state
shutdown_reason(shutting_down) == IF ~shutting_down THEN "graceful" ELSE "interrupted"

\* save_bot_state: the file after the call.  Every exception is swallowed:
\* open() may fail (file untouched) or the dump may fail after open() truncated it.
\* by: the caller (signal task, program exit, fatal-error path), kept for the properties.
save_bot_state(f, shutting_down, res, by) ==
    CASE res = "ok" -> [kind |-> "state",
                        restart_count |-> load_state(f) + 1,
                        shutdown_reason |-> shutdown_reason(shutting_down),
                        by |-> by]
      [] res = "open_fails" -> f
      [] res = "write_fails" -> BadFile

\* RestartHandler.__init__ and the first lines of main
NewRun(f) == [pc |-> "start", state |-> 0, shutting_down |-> FALSE,
              stopNotices |-> 0, gsSaves |-> 0, gsBodies |-> 0]

Alive == top > 0

(* ------------------------------ main ----------------------------------- *)
\* main, up to the first await: load the state, then either send the start
\* notice or install the signal handlers and call get_me
MainStart ==
    /\ Alive /\ runs[top].pc = "start"
    /\ runs' = [runs EXCEPT ![top].state = load_state(file),
                            ![top].pc = IF adminId THEN "start_notice" ELSE "get_me"]
    /\ sigHandler' = IF adminId THEN sigHandler ELSE top
    /\ UNCHANGED <<adminId, file, top, tasks, limitHits, limitNotices>>
    /\ lastNotice' = NoNotice
    /\ UNCHANGED <<routerVars, bootVars>>

\* an operator notice whose failure is not caught where it is sent
NoticeEscapesOnFailure(ok) == ~ok

\* the try blocks around the three operator notices ("except Exception" at
\* the start notice, a bare "except: pass" at the other two): whatever the
\* send does, no exception leaves the block
NoticeEscapes(ok) == FALSE

\* what a notice step leaves in lastNotice
NoticeResult(kind, ok) ==
    IF ok THEN NoNotice
    ELSE IF NoticeEscapes(ok) THEN [failed |-> kind, caught |-> FALSE]
    ELSE [failed |-> kind, caught |-> TRUE]

\* the start notice returns or raises (swallowed); setup_signal_handlers
\* follows.  Uncaught, the exception would leave main before its try block.
StartNotice ==
    /\ Alive /\ runs[top].pc = "start_notice"
    /\ \E ok \in BOOLEAN :
         /\ runs' = [runs EXCEPT ![top].pc = IF NoticeEscapes(ok) THEN "close" ELSE "get_me"]
         /\ sigHandler' = IF NoticeEscapes(ok) THEN sigHandler ELSE top
         /\ lastNotice' = NoticeResult("start", ok)
    /\ UNCHANGED <<adminId, file, top, tasks, limitHits, limitNotices>>
    /\ UNCHANGED <<routerVars, bootVars>>

\* bot.get_me() succeeds: polling starts
GetMe ==
    /\ Alive /\ runs[top].pc = "get_me"
    /\ runs' = [runs EXCEPT ![top].pc = "polling"]
    /\ UNCHANGED <<adminId, file, top, sigHandler, tasks, limitHits, limitNotices>>
    /\ lastNotice' = NoNotice
    /\ UNCHANGED <<routerVars, bootVars>>

\* get_me or start_polling raises: "except Exception" saves the state and sleeps
FatalError ==
    /\ Alive /\ runs[top].pc \in {"get_me", "polling"}
    /\ \E res \in SaveOutcomes :
         /\ file' = save_bot_state(file, runs[top].shutting_down, res, "fatal_error")
    /\ runs' = [runs EXCEPT ![top].pc = "sleep"]
    /\ UNCHANGED <<adminId, top, sigHandler, tasks, limitHits, limitNotices>>
    /\ lastNotice' = NoNotice
    /\ UNCHANGED <<routerVars, bootVars>>

\* the count as the save of this failure has just persisted it
restart_count_incremented(run) == run.state + 1

\* restart_count = state.get("restart_count", 0): state is the dictionary
\* loaded when this invocation started, not read again after the save
restart_count(run) == run.state

\* the restart test with the limit itself let through
MayRestartOffByOne(run) == restart_count(run) <= RestartLimit

\* the restart test of main on the count loaded when this invocation started
MayRestart(run) == restart_count(run) < RestartLimit

\* asyncio.sleep(30) is over and the count allows it: main() calls itself
\* (the loaded state is not read again by the caller and is forgotten)
Restart ==
    /\ Alive /\ runs[top].pc = "sleep"
    /\ MayRestart(runs[top])
    /\ Len(runs) < MaxRuns
    /\ runs' = Append([runs EXCEPT ![top].pc = "await_main", ![top].state = 0],
                       NewRun(file))
    /\ top' = Len(runs) + 1
    /\ UNCHANGED <<adminId, file, sigHandler, tasks, limitHits, limitNotices>>
    /\ lastNotice' = NoNotice
    /\ UNCHANGED <<routerVars, bootVars>>

\* asyncio.sleep(30) is over and the limit is reached: notify the operator, if any
LimitReached ==
    /\ Alive /\ runs[top].pc = "sleep"
    /\ ~MayRestart(runs[top])
    /\ runs' = [runs EXCEPT ![top].pc = IF adminId THEN "limit_notice" ELSE "finally",
                            ![top].state = 0]
    /\ limitHits' = limitHits + 1
    /\ limitNotices' = IF adminId THEN limitNotices + 1 ELSE limitNotices
    /\ UNCHANGED <<adminId, file, top, sigHandler, tasks>>
    /\ lastNotice' = NoNotice
    /\ UNCHANGED <<routerVars, bootVars>>

\* the limit notice returns or raises (swallowed)
LimitNotice ==
    /\ Alive /\ runs[top].pc = "limit_notice"
    /\ \E ok \in BOOLEAN :
         /\ runs' = [runs EXCEPT ![top].pc = "finally"]
         /\ lastNotice' = NoticeResult("limit", ok)
    /\ UNCHANGED <<adminId, file, top, sigHandler, tasks, limitHits, limitNotices>>
    /\ UNCHANGED <<routerVars, bootVars>>

(* ------------------------ graceful_shutdown ---------------------------- *)
\* graceful_shutdown without its guard
NeverShuttingDown(run) == FALSE

\* "if self.shutting_down: return"
AlreadyShuttingDown(run) == run.shutting_down

\* graceful_shutdown(signal_received) of run r up to its first await: test
\* and set the flag, then send the stop notice, or save at once when there
\* is no operator.  The result is the run record and the file.
graceful_shutdown(r, f, res, signal_received) ==
    IF AlreadyShuttingDown(runs[r])
    THEN [run |-> runs[r], file |-> f, awaits |-> FALSE]
    ELSE IF adminId
         THEN [run |-> [runs[r] EXCEPT !.shutting_down = TRUE,
                                       !.gsBodies = @ + 1,
                                       !.stopNotices = @ + 1],
               file |-> f, awaits |-> TRUE]
         ELSE [run |-> [runs[r] EXCEPT !.shutting_down = TRUE,
                                       !.gsBodies = @ + 1,
                                       !.gsSaves = @ + 1],
               file |-> save_bot_state(f, TRUE, res, signal_received),
               awaits |-> FALSE]

\* SIGTERM or SIGINT: the loop's handler creates a graceful_shutdown task
Signal ==
    /\ Alive /\ sigHandler > 0
    /\ Len(tasks) < MaxSignals
    /\ tasks' = Append(tasks, [h |-> sigHandler, pc |-> "start"])
    /\ UNCHANGED <<adminId, file, runs, top, sigHandler, limitHits, limitNotices>>
    /\ lastNotice' = NoNotice
    /\ UNCHANGED <<routerVars, bootVars>>

\* a signal task runs graceful_shutdown up to its first await
TaskStart ==
    /\ Alive
    /\ \E i \in 1..Len(tasks), res \in SaveOutcomes :
         LET t == tasks[i]
             g == graceful_shutdown(t.h, file, res, "signal") IN
         /\ t.pc = "start"
         /\ runs' = [runs EXCEPT ![t.h] = g.run]
         /\ file' = g.file
         /\ tasks' = [tasks EXCEPT ![i].pc = IF g.awaits THEN "notify" ELSE "done"]
    /\ UNCHANGED <<adminId, top, sigHandler, limitHits, limitNotices>>
    /\ lastNotice' = NoNotice
    /\ UNCHANGED <<routerVars, bootVars>>

\* the stop notice of a signal task returns or raises; the bare except
\* swallows everything, the cancellation at interpreter exit included, and
\* save_bot_state follows
TaskNotify ==
    /\ \E i \in 1..Len(tasks), ok \in BOOLEAN, res \in SaveOutcomes :
         LET t == tasks[i] IN
         /\ t.pc = "notify"
         /\ Alive \/ ~ok
         /\ file' = IF NoticeEscapes(ok) THEN file
                    ELSE save_bot_state(file, runs[t.h].shutting_down, res, "signal")
         /\ runs' = IF NoticeEscapes(ok) THEN runs
                    ELSE [runs EXCEPT ![t.h].gsSaves = @ + 1]
         /\ tasks' = [tasks EXCEPT ![i].pc = "done"]
         /\ lastNotice' = NoticeResult("stop", ok)
    /\ UNCHANGED <<adminId, top, sigHandler, limitHits, limitNotices>>
    /\ UNCHANGED <<routerVars, bootVars>>

\* the finally block of main: graceful_shutdown("program_exit") unless the
\* flag is set, up to the first await
Finally ==
    /\ Alive /\ runs[top].pc = "finally"
    /\ \E res \in SaveOutcomes :
         LET g == IF ~runs[top].shutting_down
                  THEN graceful_shutdown(top, file, res, "program_exit")
                  ELSE [run |-> runs[top], file |-> file, awaits |-> FALSE] IN
         /\ runs' = [runs EXCEPT ![top] =
                        [g.run EXCEPT !.pc = IF g.awaits THEN "exit_notice" ELSE "close"]]
         /\ file' = g.file
    /\ UNCHANGED <<adminId, top, sigHandler, tasks, limitHits, limitNotices>>
    /\ lastNotice' = NoNotice
    /\ UNCHANGED <<routerVars, bootVars>>

\* the stop notice of the program-exit shutdown returns or raises; save
\* follows.  Uncaught by the inner try, the exception would be logged by the
\* outer one of graceful_shutdown, past the save.
ExitNotice ==
    /\ Alive /\ runs[top].pc = "exit_notice"
    /\ \E ok \in BOOLEAN, res \in SaveOutcomes :
         /\ file' = IF NoticeEscapes(ok) THEN file
                    ELSE save_bot_state(file, runs[top].shutting_down, res, "program_exit")
         /\ runs' = IF NoticeEscapes(ok) THEN [runs EXCEPT ![top].pc = "close"]
                    ELSE [runs EXCEPT ![top].gsSaves = @ + 1, ![top].pc = "close"]
         /\ lastNotice' = NoticeResult("stop", ok)
    /\ UNCHANGED <<adminId, top, sigHandler, tasks, limitHits, limitNotices>>
    /\ UNCHANGED <<routerVars, bootVars>>

\* bot.session.close() returns and main returns: to the caller's finally
\* block, or out of asyncio.run
SessionClose ==
    /\ Alive /\ runs[top].pc = "close"
    /\ runs' = [i \in 1..Len(runs) |->
                  IF i = top THEN [runs[i] EXCEPT !.pc = "returned"]
                  ELSE IF i = top - 1 THEN [runs[i] EXCEPT !.pc = "finally"]
                  ELSE runs[i]]
    /\ top' = top - 1
    /\ UNCHANGED <<adminId, file, sigHandler, tasks, limitHits, limitNotices>>
    /\ lastNotice' = NoNotice
    /\ UNCHANGED <<routerVars, bootVars>>

SupervisorStep ==
    \/ MainStart \/ StartNotice \/ GetMe \/ Restart \/ LimitReached \/ LimitNotice
    \/ TaskStart \/ TaskNotify \/ Finally \/ ExitNotice \/ SessionClose

SupervisorNext ==
    \/ MainStart \/ StartNotice \/ GetMe \/ FatalError \/ Restart \/ LimitReached
    \/ LimitNotice \/ Signal \/ TaskStart \/ TaskNotify \/ Finally \/ ExitNotice
    \/ SessionClose

(* ----------------------------- the data -------------------------------- *)
\* the empty dictionary
EmptyData == << >>

\* a dictionary with key k set, and one with key k removed
With(d, k, v) == [x \in DOMAIN d \cup {k} |-> IF x = k THEN v ELSE d[x]]
Without(d, k) == [x \in DOMAIN d \ {k} |-> d[x]]

\* a data.json with every section the renderers read
FullService == [service |-> "fire", phones |-> <<"p1", "p2">>]
FullCompany == [company |-> "c1", description |-> "d1", phone |-> "ph1", type |-> "t1"]
FullGarbage == [company |-> "g1", service |-> "s1", phone |-> "ph2", hours |-> "h1"]
FullData ==
    [emergency |-> << <<"112", "edds">> >>,
     emergency_phones |-> <<FullService>>,
     electricity |-> <<FullCompany, Without(FullCompany, "type")>>,
     utilities |-> [garbage |-> FullGarbage],
     water |-> [dispatcher |-> "w1", note |-> "n1"],
     rules |-> <<"r1", "r2">>]

\* the contents data.json may have: complete, empty, a section missing or
\* empty, an entry of a section without one of its fields
Datasets ==
    {EmptyData, FullData}
    \cup {Without(FullData, k) : k \in DOMAIN FullData}
    \cup {With(FullData, k, << >>) : k \in DOMAIN FullData}
    \cup {With(FullData, "emergency_phones", <<Without(FullService, k)>>) : k \in DOMAIN FullService}
    \cup {With(FullData, "emergency_phones", <<With(FullService, "phones", << >>)>>)}
    \cup {With(FullData, "electricity", <<Without(FullCompany, k)>>) : k \in DOMAIN FullCompany}
    \cup {With(FullData, "utilities", [garbage |-> Without(FullGarbage, k)]) : k \in DOMAIN FullGarbage}
    \cup {With(FullData, "rules", <<"">>)}

\* data.json: not there, not JSON, or a JSON object
DataFiles ==
    {[kind |-> "absent", content |-> EmptyData], [kind |-> "malformed", content |-> EmptyData]}
    \cup {[kind |-> "json", content |-> d] : d \in Datasets}

\* load_data: {} when the file is missing or does not parse
load_data(f) == IF f.kind = "json" THEN f.content ELSE EmptyData

(* ------------------------------ renderers ------------------------------ *)
\* key in dict
Has(d, k) == k \in DOMAIN d

\* dict.get(key, default)
Get(d, k, default) == IF Has(d, k) THEN d[k] ELSE default

\* not data.get(key), for a list or a dictionary
Falsy(d, k) == ~Has(d, k) \/ DOMAIN d[k] = {}

\* dict.get(key) of a string field is truthy
HasText(d, k) == Has(d, k) /\ d[k] # ""

\* a text is the sequence of the pieces appended to it
RECURSIVE Flat(_)
Flat(ss) == IF Len(ss) = 0 THEN << >> ELSE Head(ss) \o Flat(Tail(ss))

\* "\n".join(lines)
RECURSIVE Join(_)
Join(lines) ==
    IF Len(lines) = 0 THEN << >>
    ELSE IF Len(lines) = 1 THEN <<lines[1]>>
    ELSE <<lines[1], "\n">> \o Join(Tail(lines))

\* a renderer returns its text, or a subscript of a missing key raises KeyError
Returns(text) == [raises |-> FALSE, text |-> text]
KeyError == [raises |-> TRUE, text |-> << >>]

Unavailable == <<"unavailable">>

get_emergency_text(d) ==
    IF Falsy(d, "emergency_phones") THEN Returns(Unavailable)
    ELSE LET short == Get(d, "emergency", << >>)
             services == d["emergency_phones"]
         IN  IF \E i \in DOMAIN services :
                    ~Has(services[i], "service") \/ ~Has(services[i], "phones")
             THEN KeyError
             ELSE Returns(<<"emergency services", "short numbers">>
                          \o Flat([i \in DOMAIN short |-> <<short[i][1], short[i][2]>>])
                          \o <<"contacts">>
                          \o Flat([i \in DOMAIN services |->
                                      <<services[i]["service"]>> \o services[i]["phones"]])
                          \o <<"keep these numbers">>)

get_electricity_text(d) ==
    IF Falsy(d, "electricity") THEN Returns(Unavailable)
    ELSE LET companies == d["electricity"]
         IN  IF \E i \in DOMAIN companies :
                    \/ ~Has(companies[i], "company")
                    \/ ~Has(companies[i], "description")
                    \/ ~Has(companies[i], "phone")
             THEN KeyError
             ELSE Returns(<<"electricity", "companies">>
                          \o Flat([i \in DOMAIN companies |->
                                      <<companies[i]["company"], companies[i]["description"],
                                        companies[i]["phone"]>>
                                      \o IF HasText(companies[i], "type")
                                         THEN <<companies[i]["type"]>> ELSE << >>])
                          \o <<"call the customer centre first">>)

get_utilities_text(d) ==
    IF Falsy(d, "utilities") THEN Returns(Unavailable)
    ELSE LET garbage_info == Get(d["utilities"], "garbage", << >>)
             water_info == Get(d, "water", << >>)
         IN  IF /\ DOMAIN garbage_info # {}
                /\ \/ ~Has(garbage_info, "company")
                   \/ ~Has(garbage_info, "service")
                   \/ ~Has(garbage_info, "phone")
             THEN KeyError
             ELSE Returns(<<"waste collection">>
                          \o (IF DOMAIN garbage_info # {}
                              THEN <<"company", garbage_info["company"], garbage_info["service"],
                                     garbage_info["phone"]>>
                                   \o IF HasText(garbage_info, "hours")
                                      THEN <<garbage_info["hours"]>> ELSE << >>
                              ELSE << >>)
                          \o (IF HasText(water_info, "dispatcher")
                              THEN <<"water", water_info["dispatcher"]>> ELSE << >>)
                          \o (IF HasText(water_info, "note")
                              THEN <<water_info["note"]>> ELSE << >>)
                          \o <<"collection schedule", "link">>)

get_admin_text == Returns(<<"head of the municipality">>)

get_bus_schedule_text == Returns(<<"bus schedule">>)

get_clinic_text == Returns(<<"clinic">>)

\* get_rules_text without its test for missing rules
get_rules_text_unguarded(d) ==
    IF Has(d, "rules") THEN Returns(Join(d["rules"])) ELSE KeyError

get_rules_text(d) ==
    IF Falsy(d, "rules") THEN Returns(Unavailable)
    ELSE Returns(Join(d["rules"]))

get_all_contacts_text(d) ==
    LET services == Get(d, "emergency_phones", << >>)
        companies == Get(d, "electricity", << >>)
        garbage_info == Get(Get(d, "utilities", << >>), "garbage", << >>)
    IN  IF \/ \E i \in DOMAIN services :
                 ~Has(services[i], "service") \/ ~Has(services[i], "phones")
           \/ \E i \in DOMAIN companies :
                 ~Has(companies[i], "company") \/ ~Has(companies[i], "phone")
           \/ /\ DOMAIN garbage_info # {}
              /\ \/ ~Has(garbage_info, "company")
                 \/ ~Has(garbage_info, "phone")
                 \/ ~Has(garbage_info, "service")
        THEN KeyError
        ELSE Returns(<<"all contacts", "emergency services">>
                     \o Flat([i \in DOMAIN services |->
                                 <<services[i]["service"]>> \o services[i]["phones"]])
                     \o <<"electricity">>
                     \o Flat([i \in DOMAIN companies |->
                                 <<companies[i]["company"], companies[i]["phone"]>>])
                     \o <<"waste collection">>
                     \o (IF DOMAIN garbage_info # {}
                         THEN <<garbage_info["company"], garbage_info["phone"],
                                garbage_info["service"]>>
                         ELSE << >>)
                     \o <<"collection schedule", "head of the municipality", "clinic",
                          "bus schedule", "use the menu sections">>)

get_help_text == Returns(<<"help">>)

\* the call of the renderer named fn on the loaded data
render(d, fn) ==
    CASE fn = "get_emergency_text" -> get_emergency_text(d)
      [] fn = "get_electricity_text" -> get_electricity_text(d)
      [] fn = "get_utilities_text" -> get_utilities_text(d)
      [] fn = "get_admin_text" -> get_admin_text
      [] fn = "get_bus_schedule_text" -> get_bus_schedule_text
      [] fn = "get_clinic_text" -> get_clinic_text
      [] fn = "get_rules_text" -> get_rules_text(d)
      [] fn = "get_all_contacts_text" -> get_all_contacts_text(d)
      [] fn = "get_help_text" -> get_help_text

(* --------------------------- delivery router -------------------------- *)
Users == {"u1", "u2"}
Groups == {"g1"}

\* callback data are strings, kept as sequences of characters
menu_ == <<"m", "e", "n", "u", "_">>
emergency == <<"e", "m", "e", "r", "g", "e", "n", "c", "y">>
electricity == <<"e", "l", "e", "c", "t", "r", "i", "c", "i", "t", "y">>
garbage == <<"g", "a", "r", "b", "a", "g", "e">>
contacts == <<"c", "o", "n", "t", "a", "c", "t", "s">>
rules == <<"r", "u", "l", "e", "s">>
admin == <<"a", "d", "m", "i", "n">>
bus == <<"b", "u", "s">>
clinic == <<"c", "l", "i", "n", "i", "c">>
help == <<"h", "e", "l", "p">>
show == <<"s", "h", "o", "w">>
close == <<"c", "l", "o", "s", "e">>
start == <<"s", "t", "a", "r", "t">>
menu == <<"m", "e", "n", "u">>

\* the trigger words of unknown_message, one Latin letter for each Cyrillic
\* one ("бот", "вечерницы"); capital letters are the Cyrillic capitals
bot == <<"b", "o", "t">>
vechernicy == <<"v", "e", "c", "e", "r", "n", "i", "z", "y">>

\* text messages that are no command of the bot
Texts ==
    {<<"p", "r", "i", "v", "e", "t">>,
     bot, <<"B", "o", "t">>, <<"r", "o", "B", "O", "T">>, <<"b", "o", " ", "t">>,
     vechernicy, <<"V">> \o Tail(vechernicy) \o <<"!">>,
     <<"/", "f", "o", "o">>, <<"/", "f", "o", "o", " ">> \o bot}

\* the dictionary command_functions of handle_menu_buttons
command_functions ==
    (emergency :> "get_emergency_text") @@ (electricity :> "get_electricity_text") @@
    (garbage :> "get_utilities_text") @@ (contacts :> "get_all_contacts_text") @@
    (rules :> "get_rules_text") @@ (admin :> "get_admin_text") @@
    (bus :> "get_bus_schedule_text") @@ (clinic :> "get_clinic_text") @@
    (help :> "get_help_text")

KnownCommands == DOMAIN command_functions

\* the data of the buttons the keyboards carry, and some that no keyboard carries
CallbackData ==
    {menu_ \o c : c \in KnownCommands} \cup
    {menu_ \o show, menu_ \o close,
     menu_ \o <<"x">>, menu_, menu_ \o menu_ \o help, menu_ \o <<"h", "e", "l">>,
     <<"x">> \o menu_ \o help}

\* str.startswith
StartsWith(s, prefix) ==
    /\ Len(s) >= Len(prefix)
    /\ SubSeq(s, 1, Len(prefix)) = prefix

\* str.replace(old, ""): every occurrence of old, left to right, is removed
RECURSIVE Replace(_, _)
Replace(s, old) ==
    IF s = << >> THEN << >>
    ELSE IF StartsWith(s, old) THEN Replace(SubSeq(s, Len(old) + 1, Len(s)), old)
    ELSE <<Head(s)>> \o Replace(Tail(s), old)

\* the callback_query handlers with the startswith("menu_") filter registered first
HandlerGenericFirst(cbdata) ==
    CASE StartsWith(cbdata, menu_) -> "handle_menu_buttons"
      [] cbdata = menu_ \o show -> "show_menu_handler"
      [] cbdata = menu_ \o close -> "close_menu_handler"
      [] OTHER -> "none"

\* the callback_query handlers in registration order; the first filter that matches wins
Handler(cbdata) ==
    CASE cbdata = menu_ \o show -> "show_menu_handler"
      [] cbdata = menu_ \o close -> "close_menu_handler"
      [] StartsWith(cbdata, menu_) -> "handle_menu_buttons"
      [] OTHER -> "none"

\* command = callback.data.replace("menu_", "")
CommandOf(cbdata) == Replace(cbdata, menu_)

\* command_functions[command](): the text of a topic and the renderer it comes from
Render(command) ==
    [type |-> "topic", fn |-> command_functions[command],
     text |-> render(data, command_functions[command]).text]

\* command_functions[command]() raises
RenderRaises(command) == render(data, command_functions[command]).raises

Call(op, chat, text, ok) == [op |-> op, chat |-> chat, text |-> text, ok |-> ok]

Polling == Alive /\ runs[top].pc = "polling"

\* handle_menu_buttons taking the group branch in every chat
MenuBranchAlwaysSend(type, command) ==
    IF command \in KnownCommands THEN "menu_send" ELSE "menu_not_found"

\* handle_menu_buttons up to its first await: which call it makes first
MenuBranch(type, command) ==
    IF command \in KnownCommands
    THEN IF type = "private" THEN "menu_edit" ELSE "menu_send"
    ELSE "menu_not_found"

\* no try block around the send
SendFailureUncaught == "raised"

\* where handle_menu_buttons goes when the call in its try block raises
OnSendFailure == "menu_ack_instr"

\* the renderer of a tap's command raises while the argument of the first call
\* is evaluated: in the try block when the tap came from a group, uncaught otherwise
RendererFails(d) ==
    /\ CommandOf(d) \in KnownCommands
    /\ RenderRaises(CommandOf(d))

\* the dispatcher hands a button tap to its handler, which runs to its first await
ReceiveCallback ==
    /\ Polling /\ hpc = "idle"
    /\ \E type \in {"private", "group"}, u \in Users, g \in Groups, d \in CallbackData :
         /\ inter' = [kind |-> "callback", chat_type |-> type,
                      chat |-> IF type = "private" THEN u ELSE g,
                      user |-> u, data |-> d]
         /\ hpc' = CASE Handler(d) = "show_menu_handler" -> "show_edit"
                     [] Handler(d) = "close_menu_handler" -> "close_edit"
                     [] Handler(d) = "handle_menu_buttons" ->
                          IF RendererFails(d)
                          THEN IF MenuBranch(type, CommandOf(d)) = "menu_send"
                               THEN OnSendFailure ELSE "raised"
                          ELSE MenuBranch(type, CommandOf(d))
                     [] OTHER -> "done"
         /\ raised' = IF /\ Handler(d) = "handle_menu_buttons" /\ RendererFails(d)
                         /\ MenuBranch(type, CommandOf(d)) # "menu_send"
                      THEN "render" ELSE "none"
    /\ calls' = << >>
    /\ UNCHANGED <<supVars, bootVars>>

\* the dispatcher hands the /help command to help_command_handler
ReceiveHelp ==
    /\ Polling /\ hpc = "idle"
    /\ \E type \in {"private", "group"}, u \in Users, g \in Groups :
         inter' = [kind |-> "command", chat_type |-> type,
                   chat |-> IF type = "private" THEN u ELSE g,
                   user |-> u, data |-> help]
    /\ hpc' = "help_answer"
    /\ calls' = << >>
    /\ raised' = "none"
    /\ UNCHANGED <<supVars, bootVars>>

\* the dispatcher hands /start to start_command, /menu to menu_command
ReceiveStartOrMenu ==
    /\ Polling /\ hpc = "idle"
    /\ \E type \in {"private", "group"}, u \in Users, g \in Groups, c \in {"start", "menu"} :
         /\ inter' = [kind |-> "command", chat_type |-> type,
                      chat |-> IF type = "private" THEN u ELSE g,
                      user |-> u, data |-> IF c = "start" THEN start ELSE menu]
         /\ hpc' = IF c = "start" THEN "start_answer" ELSE "menu_cmd_answer"
    /\ calls' = << >>
    /\ raised' = "none"
    /\ UNCHANGED <<supVars, bootVars>>

\* str.lower on the letters of the alphabet used here
LowerChar(c) ==
    CASE c = "B" -> "b" [] c = "O" -> "o" [] c = "T" -> "t" [] c = "V" -> "v"
      [] OTHER -> c

Lower(s) == [i \in 1..Len(s) |-> LowerChar(s[i])]

\* sub in s
Contains(s, sub) ==
    \E i \in 1..(Len(s) - Len(sub) + 1) : SubSeq(s, i, i + Len(sub) - 1) = sub

\* the test of unknown_message with the text compared as typed
MentionsBotCaseSensitive(text) == Contains(text, bot) \/ Contains(text, vechernicy)

\* "бот" in message.text.lower() or "вечерницы" in message.text.lower()
MentionsBot(text) == Contains(Lower(text), bot) \/ Contains(Lower(text), vechernicy)

\* unknown_message up to its first await: reply or return
TextBranch(type, text) ==
    IF type = "private"
    THEN IF ~StartsWith(text, <<"/">>) THEN "text_reply" ELSE "done"
    ELSE IF text # << >> /\ MentionsBot(text) THEN "text_reply" ELSE "done"

\* the dispatcher hands any other text message to unknown_message
ReceiveText ==
    /\ Polling /\ hpc = "idle"
    /\ \E type \in {"private", "group"}, u \in Users, g \in Groups, t \in Texts :
         /\ inter' = [kind |-> "text", chat_type |-> type,
                      chat |-> IF type = "private" THEN u ELSE g,
                      user |-> u, data |-> t]
         /\ hpc' = TextBranch(type, t)
    /\ calls' = << >>
    /\ raised' = "none"
    /\ UNCHANGED <<supVars, bootVars>>

\* a handler that calls save_bot_state after each of its messaging calls
HandlerSavesState ==
    /\ file' = save_bot_state(file, FALSE, "ok", "handler")
    /\ UNCHANGED <<adminId, runs, top, sigHandler, tasks, limitHits, limitNotices, lastNotice>>
    /\ UNCHANGED bootVars

\* the handlers assign no module-level name and call neither save_bot_state
\* nor load_data: a handler step leaves the supervisor and the data alone
HandlerFrame == UNCHANGED <<supVars, bootVars>>

\* one awaited messaging call of the running handler: it returns (ok) and
\* the handler goes on to next, or raises and the handler goes to onfail
\* ("raised": nothing catches it)
Await(at, op, chat, text, next, onfail) ==
    /\ Alive /\ hpc = at
    /\ \E ok \in BOOLEAN :
         /\ calls' = Append(calls, Call(op, chat, text, ok))
         /\ hpc' = IF ok THEN next ELSE onfail
         /\ raised' = IF ~ok /\ onfail = "raised" THEN op ELSE raised
    /\ UNCHANGED inter
    /\ HandlerFrame

\* help_command_handler: message.answer(get_help_text())
help_command_handler ==
    Await("help_answer", "send_message", inter.chat, Render(help), "done", "raised")

\* start_command: message.answer(welcome_text), one text per chat type
start_command ==
    Await("start_answer", "send_message", inter.chat,
          [type |-> "welcome", chat_type |-> inter.chat_type], "done", "raised")

\* menu_command: message.answer(menu_text)
menu_command ==
    Await("menu_cmd_answer", "send_message", inter.chat,
          [type |-> "menu", chat_type |-> inter.chat_type], "done", "raised")

\* unknown_message: message.answer(...) with the hint of the chat type
unknown_message ==
    Await("text_reply", "send_message", inter.chat,
          [type |-> "use_menu", chat_type |-> inter.chat_type], "done", "raised")

\* show_menu_handler: edit the message into the menu, then answer the tap
ShowMenuEdit ==
    Await("show_edit", "edit_text", inter.chat,
          [type |-> "menu", chat_type |-> inter.chat_type], "show_answer", "raised")

ShowMenuAnswer ==
    Await("show_answer", "answer", inter.user, [type |-> "empty"], "done", "raised")

\* close_menu_handler
CloseMenuEdit ==
    Await("close_edit", "edit_text", inter.chat, [type |-> "menu_closed"],
          "close_answer", "raised")

CloseMenuAnswer ==
    Await("close_answer", "answer", inter.user, [type |-> "menu_closed"], "done", "raised")

\* the topic sent to the chat the tap came from
TargetIsOriginChat(i) == i.chat

\* the chat handle_menu_buttons sends a topic to from a group
PrivateTarget(i) == i.user

\* the edit of the private branch put into a try block like the send of the group branch
MenuEditCaught ==
    Await("menu_edit", "edit_text", inter.chat, Render(CommandOf(inter.data)),
          "menu_answer", OnSendFailure)

\* handle_menu_buttons, private chat: the topic replaces the menu message
MenuEdit ==
    Await("menu_edit", "edit_text", inter.chat, Render(CommandOf(inter.data)),
          "menu_answer", "raised")

MenuAnswer ==
    Await("menu_answer", "answer", inter.user, [type |-> "empty"], "done", "raised")

\* handle_menu_buttons, group: the topic goes to the user's private chat ...
MenuSend ==
    Await("menu_send", "send_message", PrivateTarget(inter), Render(CommandOf(inter.data)),
          "menu_ack_sent", OnSendFailure)

\* ... then the tap is answered; "except Exception" covers this call too
MenuAckSent ==
    Await("menu_ack_sent", "answer", inter.user, [type |-> "sent_to_private"],
          "done", OnSendFailure)

\* the except branch: tell the user to write to the bot first
MenuAckInstr ==
    Await("menu_ack_instr", "answer", inter.user, [type |-> "write_me_first"],
          "done", "raised")

\* "not found" posted into the chat instead of answering the tap
MenuNotFoundAsMessage ==
    Await("menu_not_found", "send_message", inter.chat, [type |-> "not_found"],
          "done", "raised")

\* handle_menu_buttons, command not in command_functions
MenuNotFound ==
    Await("menu_not_found", "answer", inter.user, [type |-> "not_found"], "done", "raised")

\* the handler coroutine is over
HandlerReturn ==
    /\ hpc \in {"done", "raised"}
    /\ hpc' = "idle"
    /\ inter' = [kind |-> "none"]
    /\ calls' = << >>
    /\ raised' = "none"
    /\ UNCHANGED <<supVars, bootVars>>

RouterNext ==
    \/ ReceiveCallback \/ ReceiveHelp \/ help_command_handler
    \/ ReceiveStartOrMenu \/ ReceiveText \/ start_command \/ menu_command \/ unknown_message
    \/ ShowMenuEdit \/ ShowMenuAnswer \/ CloseMenuEdit \/ CloseMenuAnswer
    \/ MenuEdit \/ MenuAnswer \/ MenuSend \/ MenuAckSent \/ MenuAckInstr
    \/ MenuNotFound \/ HandlerReturn

(* ------------------------------ start ---------------------------------- *)
InitFiles ==
    {NoFile, BadFile} \cup
    [kind : {"state"}, restart_count : 0..MaxInitCount,
     shutdown_reason : {"graceful", "interrupted"}, by : {"earlier"}]

\* the module-level code is through: token read, data loaded, bot and dispatcher made
Booted ==
    /\ boot = "running"
    /\ token = "valid"
    /\ hookNotices = 0

RouterIdle ==
    /\ inter = [kind |-> "none"]
    /\ hpc = "idle"
    /\ calls = << >>
    /\ raised = "none"

\* asyncio.run(main()) is called
Init ==
    /\ adminId \in BOOLEAN
    /\ file \in InitFiles
    /\ runs = <<NewRun(file)>>
    /\ top = 1
    /\ sigHandler = 0
    /\ tasks = << >>
    /\ limitHits = 0
    /\ limitNotices = 0
    /\ lastNotice = NoNotice
    /\ Booted
    /\ dataFile = [kind |-> "absent", content |-> EmptyData]
    /\ data = load_data(dataFile)
    /\ RouterIdle

\* the first run of main has reached start_polling
PollingInit ==
    /\ adminId \in BOOLEAN
    /\ file \in InitFiles
    /\ runs = <<[NewRun(file) EXCEPT !.pc = "polling", !.state = load_state(file)]>>
    /\ top = 1
    /\ sigHandler = 1
    /\ tasks = << >>
    /\ limitHits = 0
    /\ limitNotices = 0
    /\ lastNotice = NoNotice
    /\ Booted
    /\ dataFile \in DataFiles
    /\ data = load_data(dataFile)
    /\ RouterIdle

(* ------------------------- module-level start -------------------------- *)
Tokens == {"missing", "empty", "bad_format", "valid"}

\* the module without its test of BOT_TOKEN
TokenNeverRefused(t) == FALSE

\* not BOT_TOKEN: os.getenv gave None or ""
TokenRefused(t) == t \in {"missing", "empty"}

\* handle_unhandled_exception, the sys.excepthook: it sends its notice when
\* ADMIN_ID is set, BOT_TOKEN is in the environment and Bot(token=...) accepts
\* the token; whatever fails in it is swallowed
excepthook_notices(admin_id, t) ==
    IF admin_id /\ t # "missing" /\ t = "valid" THEN 1 ELSE 0

\* BOT_TOKEN = os.getenv("BOT_TOKEN"); raise ValueError if it is not set
TokenCheck ==
    /\ boot = "import"
    /\ IF TokenRefused(token)
       THEN /\ boot' = "refused"
            /\ hookNotices' = hookNotices + excepthook_notices(adminId, token)
       ELSE /\ boot' = "token_ok"
            /\ UNCHANGED hookNotices
    /\ UNCHANGED <<token, dataFile, data>>
    /\ UNCHANGED <<supVars, routerVars>>

\* data = load_data()
LoadData ==
    /\ boot = "token_ok"
    /\ data' = load_data(dataFile)
    /\ boot' = "data_loaded"
    /\ UNCHANGED <<token, dataFile, hookNotices>>
    /\ UNCHANGED <<supVars, routerVars>>

\* bot = Bot(token=BOT_TOKEN, ...): aiogram rejects a token that is not a
\* string of the form id:secret; dp = Dispatcher() and the handlers follow
MakeBot ==
    /\ boot = "data_loaded"
    /\ IF token = "valid"
       THEN /\ boot' = "bot_made"
            /\ UNCHANGED hookNotices
       ELSE /\ boot' = "refused"
            /\ hookNotices' = hookNotices + excepthook_notices(adminId, token)
    /\ UNCHANGED <<token, dataFile, data>>
    /\ UNCHANGED <<supVars, routerVars>>

\* asyncio.run(main()): the first invocation of main with its RestartHandler
StartMain ==
    /\ boot = "bot_made"
    /\ boot' = "running"
    /\ runs' = <<NewRun(file)>>
    /\ top' = 1
    /\ UNCHANGED <<adminId, file, sigHandler, tasks, limitHits, limitNotices, lastNotice>>
    /\ UNCHANGED <<token, dataFile, data, hookNotices>>
    /\ UNCHANGED routerVars

BootNext == TokenCheck \/ LoadData \/ MakeBot \/ StartMain

\* the interpreter starts to execute the module
BootInit ==
    /\ adminId \in BOOLEAN
    /\ file \in InitFiles
    /\ runs = << >>
    /\ top = 0
    /\ sigHandler = 0
    /\ tasks = << >>
    /\ limitHits = 0
    /\ limitNotices = 0
    /\ lastNotice = NoNotice
    /\ boot = "import"
    /\ token \in Tokens
    /\ hookNotices = 0
    /\ dataFile \in DataFiles
    /\ data = EmptyData
    /\ RouterIdle

\* the module-level code up to the call of main
BootSpec == BootInit /\ [][BootNext]_vars

Next == SupervisorNext \/ RouterNext

\* the start of FrameSpec: polling, bot_state.json absent or at the limit,
\* data.json complete
FrameInit ==
    /\ PollingInit
    /\ adminId
    /\ file \in {NoFile, [kind |-> "state", restart_count |-> RestartLimit,
                          shutdown_reason |-> "graceful", by |-> "earlier"]}
    /\ dataFile = [kind |-> "json", content |-> FullData]

\* updates handled while the transitions that write bot_state.json take place
FrameNext ==
    \/ ReceiveCallback \/ ReceiveHelp \/ help_command_handler
    \/ ReceiveStartOrMenu \/ ReceiveText \/ start_command \/ menu_command \/ unknown_message
    \/ ShowMenuEdit \/ ShowMenuAnswer \/ CloseMenuEdit \/ CloseMenuAnswer
    \/ MenuEdit \/ MenuAnswer \/ MenuSend \/ MenuAckSent \/ MenuAckInstr \/ MenuNotFound
    \/ HandlerReturn
    \/ FatalError \/ Signal \/ TaskStart \/ TaskNotify
    \/ LimitReached \/ LimitNotice \/ Finally \/ ExitNotice \/ SessionClose

\* the handlers together with the supervisor from start_polling on, a
\* restart left out
FrameSpec == FrameInit /\ [][FrameNext]_vars

\* the whole program
Spec == Init /\ [][Next]_vars

\* the supervisor, no update arriving
SupervisorSpec == Init /\ [][SupervisorNext]_vars

\* the event loop runs every coroutine that is ready; errors and signals
\* come from outside and need not come
SupervisorFairSpec == SupervisorSpec /\ WF_vars(SupervisorStep)

\* the handlers, while the first run polls
RouterSpec == PollingInit /\ [][RouterNext]_vars

(* ============================ properties =============================== *)
Finished == hpc \in {"done", "raised"}

CallsWith(P(_)) == {i \in 1..Len(calls) : P(calls[i])}

IsDelivery(c) == c.op \in {"send_message", "edit_text"}
IsAnswer(c) == c.op = "answer"

\* a button tap handled by handle_menu_buttons
MenuTap == inter.kind = "callback" /\ Handler(inter.data) = "handle_menu_buttons"
TopicTap(type) ==
    /\ MenuTap /\ inter.chat_type = type
    /\ CommandOf(inter.data) \in KnownCommands

\* the private chat answered the send of a group topic tap
SendRefused == Len(calls) >= 1 /\ calls[1].op = "send_message" /\ ~calls[1].ok
SendAccepted == Len(calls) >= 1 /\ calls[1].op = "send_message" /\ calls[1].ok

(* C1: a group tap for a known topic whose private send is refused: nothing
   is delivered to any chat, the handler makes no further send, it answers
   the tap exactly once, with the "write to me first" instruction, to the
   user who tapped, and the exception of the send does not leave the handler. *)
C1_RefusedSendGivesInstruction ==
    (Finished /\ TopicTap("group") /\ SendRefused) =>
        /\ CallsWith(LAMBDA c : IsDelivery(c) /\ c.ok) = {}
        /\ CallsWith(IsDelivery) = {1}
        /\ CallsWith(IsAnswer) = {2}
        /\ Len(calls) = 2
        /\ calls[2].text = [type |-> "write_me_first"]
        /\ calls[2].chat = inter.user
        /\ raised # "send_message"
        /\ (calls[2].ok <=> hpc = "done")

C1_Witness ==
    /\ hpc = "done" /\ TopicTap("group") /\ SendRefused
    /\ Len(calls) = 2 /\ calls[2].ok

(* C2: a group tap for a known topic whose private send is accepted: exactly
   one message, the rendered topic, is sent, to the private chat of the user
   who tapped; no call addresses the group; and the "sent to your private
   messages" answer is given exactly once, to that user, right after. *)
C2_AcceptedSendGivesTopicAndAck ==
    (Finished /\ TopicTap("group") /\ SendAccepted) =>
        /\ CallsWith(IsDelivery) = {1}
        /\ calls[1].chat = inter.user
        /\ calls[1].text = Render(CommandOf(inter.data))
        /\ CallsWith(LAMBDA c : c.chat = inter.chat) = {}
        /\ CallsWith(LAMBDA c : IsAnswer(c) /\ c.text = [type |-> "sent_to_private"]) = {2}
        /\ calls[2].chat = inter.user
        /\ (calls[2].ok => Len(calls) = 2 /\ hpc = "done")

C2_Witness ==
    /\ hpc = "done" /\ TopicTap("group") /\ SendAccepted
    /\ Len(calls) = 2 /\ calls[2].ok
    /\ inter.user = "u2"

(* C3: in a group, by tap or by command, the text of a topic is never sent
   into the group chat: every call that carries it addresses the private
   chat of the acting user. *)
C3_TopicNeverIntoGroup ==
    \A i \in 1..Len(calls) :
        (inter.chat_type = "group" /\ calls[i].text.type = "topic")
            => calls[i].chat = inter.user

(* C4: a private-chat tap for a known topic: the rendered topic is put into
   the chat the tap came from by exactly one call, the edit of the menu
   message, and no send_message call is made at all. *)
C4_PrivateTapEditsInPlace ==
    (Finished /\ TopicTap("private")) =>
        /\ CallsWith(IsDelivery) = {1}
        /\ calls[1].op = "edit_text"
        /\ calls[1].chat = inter.chat
        /\ calls[1].text = Render(CommandOf(inter.data))
        /\ CallsWith(LAMBDA c : c.op = "send_message") = {}

C4_Witness ==
    /\ hpc = "done" /\ TopicTap("private")
    /\ Len(calls) = 2 /\ calls[1].ok /\ calls[2].ok

(* C5: a tap whose command is not a key of command_functions, in a private
   chat or a group: the only call is the "not found" answer to the user;
   no send and no edit. *)
C5_UnknownTopicNotFound ==
    (Finished /\ MenuTap /\ CommandOf(inter.data) \notin KnownCommands) =>
        /\ Len(calls) = 1
        /\ calls[1] = Call("answer", inter.user, [type |-> "not_found"], calls[1].ok)
        /\ CallsWith(IsDelivery) = {}

C5_Witness ==
    /\ hpc = "done" /\ MenuTap /\ inter.data = menu_ \o <<"x">>
    /\ inter.chat_type = "group" /\ Len(calls) = 1 /\ calls[1].ok

(* C6: the run loop is restarted at most 5 times in one process execution,
   whatever the saves of the state do. *)
C6_AtMostFiveRestarts == Len(runs) - 1 <= RestartLimit

(* C7: when the run loop fails and the count loaded by that run has reached
   the limit, main is not called again, neither then nor later; the limit
   notice is sent exactly once when an operator is configured and never
   otherwise; and the process comes to its end and stays there. *)
AtLimit == Alive /\ runs[top].pc = "sleep" /\ runs[top].state >= RestartLimit

C7_LimitStopsForGood ==
    /\ [](limitHits <= 1 /\ limitNotices <= 1)
    /\ [](limitHits = 1 => limitNotices = IF adminId THEN 1 ELSE 0)
    /\ [][(AtLimit \/ limitHits > 0) => Len(runs') = Len(runs)]_vars
    /\ [][AtLimit => (top' = top /\ (runs'[top].pc # "sleep" => limitHits' = 1))]_vars
    /\ [][~Alive => ~Alive']_vars
    /\ (AtLimit ~> ~Alive)

C7_Witness == ~Alive /\ limitHits = 1 /\ limitNotices = 1 /\ Len(runs) > 1

(* C8: once a termination signal has come while the run loop polls, the
   process reaches its end. *)
C8_SignalStopsProcess ==
    (Polling /\ \E i \in 1..Len(tasks) : tasks[i].h = top) ~> ~Alive

(* C9: for each RestartHandler the body of graceful_shutdown runs at most
   once, whoever calls it and however the calls interleave: at most one stop
   notice and at most one save by graceful_shutdown. *)
C9_ShutdownOnce ==
    \A r \in 1..Len(runs) :
        /\ runs[r].gsBodies <= 1
        /\ runs[r].stopNotices <= 1
        /\ runs[r].gsSaves <= 1

C9_Witness ==
    \E r \in 1..Len(runs) :
        /\ runs[r].pc = "returned" /\ runs[r].gsBodies = 1 /\ runs[r].stopNotices = 1
        /\ Cardinality({i \in 1..Len(tasks) : tasks[i].h = r /\ tasks[i].pc = "done"}) >= 2

(* C10: the state a signal-triggered graceful shutdown writes has
   shutdown_reason "graceful". *)
C10_SignalWritesGraceful ==
    (file.kind = "state" /\ file.by = "signal") => file.shutdown_reason = "graceful"

(* C11: the state written by the fatal-error path of a run that is not
   shutting down has shutdown_reason "interrupted". *)
C11_FatalWritesInterrupted ==
    [][(Alive /\ runs[top].pc \in {"get_me", "polling"} /\ ~runs[top].shutting_down
        /\ runs'[top].pc = "sleep" /\ file'.kind = "state" /\ file'.by = "fatal_error"
        /\ file' # file)
       => file'.shutdown_reason = "interrupted"]_vars

(* C12: a write that succeeds stores the count read from the file plus one
   (one when there is no file), and the count read from the file never goes
   down. *)
C12_CountNeverDecreases ==
    [][/\ (file' # file /\ file'.kind = "state")
            => file'.restart_count = load_state(file) + 1
       /\ load_state(file') >= load_state(file)]_vars

(* C13: a failed operator notice is caught where it is sent and changes
   nothing else: after a failed start notice the run goes on to get_me with
   its signal handlers installed, after a failed limit notice main goes on
   to its finally block, and every stop notice of graceful_shutdown, failed
   or not, is followed by the save; no failed notice sends main to the
   fatal-error path. *)
StopNoticePending(r) ==
    \/ runs[r].pc = "exit_notice"
    \/ \E i \in 1..Len(tasks) : tasks[i].h = r /\ tasks[i].pc = "notify"

C13_NoticeFailureSwallowed ==
    /\ lastNotice.caught
    /\ lastNotice.failed = "start"
          => (Alive /\ runs[top].pc = "get_me" /\ sigHandler = top)
    /\ lastNotice.failed = "limit" => (Alive /\ runs[top].pc = "finally")
    /\ \A r \in 1..Len(runs) :
          (runs[r].stopNotices = 1 /\ ~StopNoticePending(r)) => runs[r].gsSaves = 1

C13_Witness ==
    /\ lastNotice.failed = "stop"
    /\ \E r \in 1..Len(runs) : runs[r].stopNotices = 1 /\ runs[r].gsSaves = 1
    /\ file.kind = "state" /\ file.by \in {"signal", "program_exit"}

\* a request the handlers are registered for: a command, a text, a tap on a
\* button whose data a callback handler matches
HandledRequest ==
    \/ inter.kind \in {"command", "text"}
    \/ inter.kind = "callback" /\ Handler(inter.data) # "none"

(* C14: every command, text message and button tap, in a private chat or a
   group, whether its calls succeed or fail, is answered by at least one
   messaging call (a reply, an edit or an answer to the tap). *)
C14_EveryRequestAnswered ==
    (Finished /\ HandledRequest) => Len(calls) >= 1

\* a request for a known topic made in a private chat: a tap or /help
DirectTopicRequest ==
    \/ TopicTap("private")
    \/ inter.kind = "command" /\ inter.data = help /\ inter.chat_type = "private"

DeliveryFailed == CallsWith(LAMBDA c : IsDelivery(c) /\ ~c.ok) # {}

(* C15: in a private chat, when the delivery of a known topic fails, the
   exception of that call leaves the handler: the failed call is the only
   call of the interaction, no answer of any kind follows it. *)
C15_DirectFailureSurfaces ==
    (Finished /\ DirectTopicRequest /\ DeliveryFailed) =>
        /\ hpc = "raised"
        /\ Len(calls) = 1
        /\ raised = calls[1].op
        /\ CallsWith(IsAnswer) = {}

C15_Witness ==
    /\ hpc = "raised" /\ TopicTap("private")
    /\ Len(calls) = 1 /\ calls[1].op = "edit_text" /\ ~calls[1].ok
    /\ raised = "edit_text"

\* the text holds a trigger word, capital letters taken as their small ones
HasTrigger(text) ==
    \E w \in {bot, vechernicy} :
        \E i \in 0..(Len(text) - Len(w)) :
            \A j \in 1..Len(w) : LowerChar(text[i + j]) = w[j]

(* C18: a text message that does not begin with "/" is replied to exactly
   when it comes from a private chat or holds a trigger word in any case of
   letters; the reply is one message into the chat the text came from, with
   the hint of that kind of chat; a group text without a trigger word causes
   no call. *)
C18_TextReplyRule ==
    (Finished /\ inter.kind = "text" /\ ~StartsWith(inter.data, <<"/">>)) =>
        /\ Len(calls) = (IF inter.chat_type = "private" \/ HasTrigger(inter.data) THEN 1 ELSE 0)
        /\ \A i \in 1..Len(calls) :
              /\ calls[i].op = "send_message"
              /\ calls[i].chat = inter.chat
              /\ calls[i].text = [type |-> "use_menu", chat_type |-> inter.chat_type]

C18_Witness ==
    /\ hpc = "done" /\ inter.kind = "text" /\ inter.chat_type = "group"
    /\ inter.data = <<"r", "o", "B", "O", "T">>
    /\ Len(calls) = 1 /\ calls[1].ok

\* a handler is at work on a request for the known topic it returns: a tap in a
\* private chat or a group, or /help
TopicRequest ==
    /\ hpc # "idle"
    /\ \/ TopicTap("private") \/ TopicTap("group")
       \/ inter.kind = "command" /\ inter.data = help

RequestedTopic == IF inter.kind = "command" THEN help ELSE CommandOf(inter.data)

\* the renderer of the requested topic, called on the loaded data
Rendered == render(data, command_functions[RequestedTopic])

NonEmptyText(text) == \E i \in DOMAIN text : text[i] # ""

(* C16: whatever data.json held (nothing, every section, a section missing
   or empty, an entry without some of its fields), the renderer of a
   requested known topic returns, and returns a non-empty text. *)
C16_RenderNeverRaises ==
    TopicRequest => (~Rendered.raises /\ NonEmptyText(Rendered.text))

\* no data was loaded: data.json absent, not JSON, or the empty object
NoData == DOMAIN data = {}

(* C17 as stated: with no data loaded, every known topic renders the
   "temporarily unavailable" placeholder. *)
C17_PlaceholderForEveryTopic ==
    (TopicRequest /\ NoData) => (~Rendered.raises /\ Rendered.text = Unavailable)

DataTopics == {emergency, electricity, garbage, rules}
FixedTopics == {admin, clinic, bus, help}

(* C17, amended: with no data loaded, no renderer raises; the topics read
   from data.json (emergency, electricity, utilities, rules) render the
   placeholder; administration, clinic, bus schedule and help render their
   fixed texts, the same as with a complete data.json; all contacts renders
   its digest with the sections read from data.json left empty. *)
C17_PlaceholderForDataTopics ==
    (TopicRequest /\ NoData) =>
        /\ ~Rendered.raises
        /\ RequestedTopic \in DataTopics => Rendered.text = Unavailable
        /\ RequestedTopic \in FixedTopics =>
              /\ Rendered.text # Unavailable
              /\ Rendered = render(FullData, command_functions[RequestedTopic])
        /\ RequestedTopic = contacts =>
              Rendered.text = <<"all contacts", "emergency services", "electricity",
                                "waste collection", "collection schedule",
                                "head of the municipality", "clinic", "bus schedule",
                                "use the menu sections">>

C17_Witness ==
    /\ hpc = "done" /\ TopicTap("private") /\ RequestedTopic = rules
    /\ dataFile.kind = "malformed" /\ NoData
    /\ Len(calls) = 2 /\ calls[1].ok /\ calls[1].text.text = Unavailable

\* the process stopped at the test of the token: no data loaded, no Bot, no
\* call of main, and so no step of the supervisor or of a handler possible
RefusedToStart ==
    /\ boot \in {"import", "refused"}
    /\ runs = << >> /\ ~Alive /\ tasks = << >>
    /\ ~ENABLED (SupervisorNext \/ RouterNext)

(* C20: with no BOT_TOKEN in the environment the process ends at the test
   of the token: it never gets to load_data, to Bot(...) or to main and its
   start_polling; bot_state.json is not written and no message is sent,
   neither by a handler nor as an operator notice nor by the excepthook. *)
C20_NoTokenNoStart ==
    /\ [](token = "missing" =>
            /\ RefusedToStart
            /\ calls = << >> /\ hookNotices = 0 /\ limitNotices = 0
            /\ lastNotice = NoNotice)
    /\ [][token = "missing" => (file' = file /\ data' = data)]_vars

C20_Witness == token = "missing" /\ boot = "refused" /\ hookNotices = 0

\* a step of a handler: an update taken, a messaging call made, a handler left
HandlerStep == hpc' # hpc \/ calls' # calls \/ inter' # inter

(* C19: no step of a handler, whatever the update and whether its calls
   succeed or fail, changes bot_state.json or the loaded data; the data is
   never changed at all, and bot_state.json is changed only by a step of the
   signal shutdown or of the fatal-error path, and every state it then holds
   was written by one of them. *)
C19_HandlersLeaveStateAlone ==
    [][/\ HandlerStep => (file' = file /\ data' = data /\ dataFile' = dataFile)
       /\ data' = data
       /\ file' # file =>
             /\ ~HandlerStep
             /\ file'.kind = "state" => file'.by \in {"signal", "program_exit", "fatal_error"}]_vars

C19_Witness ==
    /\ hpc = "done" /\ Len(calls) = 2 /\ calls[1].ok /\ calls[2].ok
    /\ file.kind = "state" /\ file.by = "signal"

\* the invocation of main that is executing leaves its backoff wait
LeavesSleep == Alive /\ runs[top].pc = "sleep" /\ runs'[top].pc # "sleep"

\* a new invocation of main begins
NewRunStarts == Len(runs') = Len(runs) + 1 /\ top' = Len(runs') /\ runs'[top'].pc = "start"

(* C21: when the invocation that failed leaves asyncio.sleep(30), main is
   called again exactly if the restart_count this invocation loaded when it
   started is below 5 (so a count of 5 or more found in bot_state.json makes
   the first failure final); no invocation begins in any other way; and the
   wait is entered only by the step that called save_bot_state. *)
C21_RestartIffLoadedCountBelowLimit ==
    [][/\ LeavesSleep => (NewRunStarts <=> runs[top].state < RestartLimit)
       /\ Len(runs') # Len(runs) => (LeavesSleep /\ NewRunStarts)
       /\ (Alive /\ runs[top].pc # "sleep" /\ runs'[top].pc = "sleep") =>
             \E res \in SaveOutcomes :
                 file' = save_bot_state(file, runs[top].shutting_down, res, "fatal_error")]_vars

C21_Witness ==
    /\ Len(runs) = 2 /\ limitHits = 1
    /\ runs[1].pc = "await_main" /\ runs[2].pc \in {"limit_notice", "finally"}

\* a termination signal has been received and the graceful_shutdown it
\* started has set the flag of its RestartHandler: ShuttingDown is entered
SignalReceived ==
    \E i \in 1..Len(tasks) : tasks[i].pc # "start" /\ runs[tasks[i].h].shutting_down

(* C22: once a termination signal has been received and its shutdown has
   begun, whether during polling or during the backoff wait after a
   failure, main is never called again: no new invocation begins. *)
C22_NoRestartAfterSignal ==
    [][SignalReceived => Len(runs') = Len(runs)]_vars

\* the "write to me in private first" answer was issued in this interaction
InstructionShown == CallsWith(LAMBDA c : c.text = [type |-> "write_me_first"]) # {}

(* C23: for a group tap on a known topic whose text renders, the "write to
   me in private first" answer is issued only when the send to the user's
   private chat was refused, and never when that send succeeded, the case
   of a failing "sent" answer after the delivery included. *)
C23_InstructionOnlyAfterRefusal ==
    (TopicTap("group") /\ ~RendererFails(inter.data) /\ InstructionShown) =>
        (SendRefused /\ ~SendAccepted)

\* the invocations of main whose RestartHandler has run the body of
\* graceful_shutdown; with no signal received each of them did so from its
\* finally block, as the program-exit shutdown
ShutDownRuns == {r \in 1..Len(runs) : runs[r].gsBodies > 0}

(* C24: in an execution that received no signal, whatever the number of
   restarts, the program-exit shutdown (stop notice, state write, session
   close) is performed by at most one invocation of main, so that
   bot_state.json is written at exit at most once. *)
C24_ProgramExitShutdownOnce ==
    tasks = << >> => Cardinality(ShutDownRuns) <= 1

\* a tap on the "show menu" or the "close menu" button
ShowOrCloseTap == inter.kind = "callback" /\ inter.data \in {menu_ \o show, menu_ \o close}

(* C25: a tap with the data menu_show or menu_close, in a private chat or a
   group, is handled by show_menu_handler or close_menu_handler and never
   by the generic menu_ handler: its calls are one edit of the message in
   the chat of the tap and then one answer to the tap, nothing else; no
   message is sent to any chat, and no "not found", topic, "sent" or
   "write to me first" text is issued. *)
C25_ShowCloseOwnHandlers ==
    ShowOrCloseTap =>
        /\ Handler(inter.data) \in {"show_menu_handler", "close_menu_handler"}
        /\ hpc \in {"show_edit", "show_answer", "close_edit", "close_answer", "done", "raised"}
        /\ Len(calls) <= 2
        /\ Len(calls) >= 1 => (calls[1].op = "edit_text" /\ calls[1].chat = inter.chat)
        /\ Len(calls) = 2 => (calls[1].ok /\ calls[2].op = "answer" /\ calls[2].chat = inter.user)
        /\ hpc = "done" => Len(calls) = 2
        /\ \A i \in 1..Len(calls) :
              /\ calls[i].op # "send_message"
              /\ calls[i].text.type \in {"menu", "menu_closed", "empty"}

C25_Witness ==
    /\ hpc = "done" /\ ShowOrCloseTap /\ inter.data = menu_ \o show
    /\ inter.chat_type = "group"
    /\ Len(calls) = 2 /\ calls[1].ok /\ calls[2].ok
====
